---- MODULE Spec2Model ----
(***************************************************************************)
(* A model of DHeap4Simd (include/dheap4_simd.hpp, src/dheap4_simd.cpp):   *)
(* a d-ary min-heap over parallel key / slot arrays with a slot free list, *)
(* whose sift-down finds the minimum child either by a scalar scan or by   *)
(* NEON block reductions, depending on a build-time policy.                *)
(*                                                                         *)
(* C++ vectors are modelled as TLA+ sequences; the C++ index i is the      *)
(* sequence position i + 1 (operators At and Put).                         *)
(***************************************************************************)
EXTENDS Integers, Sequences, FiniteSets, Bags, TLC

VARIABLES
    cfg,          \* the build configuration (the DHEAP_* macros, USE_NEON)
    heap_keys_,   \* std::vector<value_type> heap_keys_
    heap_slots_,  \* std::vector<slot_type> heap_slots_
    free_slots_,  \* std::vector<slot_type> free_slots_
    next_slot_,   \* slot_type next_slot_
    result,       \* what the last call returned or threw, and its argument
    sift_trace,   \* the sift-down steps of the last call, in order
    ref,          \* the tests' reference std::priority_queue (a bag of keys)
    twin,         \* a second heap object run beside the first (or Null)
    input,        \* the keys handed to the heap by the running scenario
    out,          \* the keys read by top() while the scenario drains
    nPush,        \* successful push calls of the running scenario
    nPop,         \* successful pop calls of the running scenario
    phase,        \* the running scenario's position
    issued,       \* for each slot held by the heap, the key it was issued for
    calls,        \* the calls made so far by the running scenario, oldest first
    frame         \* the local variables of the call in progress

vars == <<cfg, heap_keys_, heap_slots_, free_slots_, next_slot_, result,
          sift_trace, ref, twin, input, out, nPush, nPop, phase, issued, calls,
          frame>>

heapVars == <<heap_keys_, heap_slots_, free_slots_, next_slot_>>

-----------------------------------------------------------------------------
(* Bounds of the model *)

\* the largest heap the general specification grows
MaxSize == 5
\* keys of the general specification are 0..MaxKey
MaxKey == 2
\* the largest argument of reserve()
MaxReserve == 1
\* the most calls of the slot pool scenario
MaxCalls == 6
\* the most push and pop calls after construction, run step by step
MaxRunOps == 1
\* the longest key sequence of the fill-then-drain scenario
MaxLen == 5
\* the most push calls of the push/pop counting scenario
MaxOps == 5
\* the largest constructor input of the slot counter scenario
MaxBuilt == 3
\* the largest constructor input of the hybrid build scenario
MaxBuild == 22

(* Program constants *)

DHEAP_ARITY == 4
DHEAP_SIMD_POLICY == 2
DHEAP_SIMD_BUILD_MIN_ARITY == 8
DHEAP_SIMD_POP_MIN_SIZE == 4194304
INT32_MAX == 2147483647
INT32_MIN == -INT32_MAX - 1

Keys == 0 .. MaxKey

Null == [null |-> TRUE]

-----------------------------------------------------------------------------
(* Sequences as zero-based arrays *)

At(s, i) == s[i + 1]

Put(s, i, v) == [s EXCEPT ![i + 1] = v]

\* std::vector::pop_back
PopBack(s) == SubSeq(s, 1, Len(s) - 1)

\* std::vector::back
Back(s) == s[Len(s)]

\* std::min on size_t
MinNat(a, b) == IF a < b THEN a ELSE b

-----------------------------------------------------------------------------
(* Key comparison: value_type is int32_t and every comparison of the code  *)
(* is the built-in signed one.                                             *)

\* whether a - b, computed in 32 bits, comes out negative (the difference
\* wraps when it leaves INT32_MIN..INT32_MAX)
WrapSubNegative(a, b) ==
    IF a >= 0 /\ b < 0 /\ a > INT32_MAX + b THEN TRUE
    ELSE IF a < 0 /\ b > 0 /\ a < INT32_MIN + b THEN FALSE
    ELSE a - b < 0

\* a comparison by the sign of a 32-bit difference
KeyLessBySub(a, b) == WrapSubNegative(a, b)

\* heap_keys_[j] < min_val, min1 < min0
KeyLess(a, b) == a < b

\* key >= heap_keys_[p], min_val >= key
KeyGeq(a, b) == ~KeyLess(a, b)

-----------------------------------------------------------------------------
(* Configuration *)

DefaultConfig ==
    [d |-> DHEAP_ARITY, policy |-> DHEAP_SIMD_POLICY, neon |-> TRUE,
     buildMinArity |-> DHEAP_SIMD_BUILD_MIN_ARITY,
     popMinSize |-> DHEAP_SIMD_POP_MIN_SIZE]

\* static size_t parent(size_t i)
parent(d, i) == (i - 1) \div d

\* static size_t first_child(size_t i)
first_child(d, i) == i * d + 1

-----------------------------------------------------------------------------
(* The NEON helpers. A vector register is a sequence of four lanes. *)

\* vld1q_s32(&heap_keys_[c])
vld1q_s32(keys, c) == <<At(keys, c), At(keys, c + 1), At(keys, c + 2), At(keys, c + 3)>>

Min2(a, b) == IF KeyLess(b, a) THEN b ELSE a

\* vminvq_s32, or the vmin/vpmin reduction
neon_min4(v) == Min2(Min2(v[1], v[3]), Min2(v[2], v[4]))

\* the lanes equal to target, as a bit mask (lane k is bit k)
neon_equal_mask4(v, target) ==
    (IF v[1] = target THEN 1 ELSE 0) + (IF v[2] = target THEN 2 ELSE 0)
    + (IF v[3] = target THEN 4 ELSE 0) + (IF v[4] = target THEN 8 ELSE 0)

\* __builtin_ctz on a non-zero 4-bit mask
ctz(mask) ==
    IF mask % 2 = 1 THEN 0
    ELSE IF (mask \div 2) % 2 = 1 THEN 1
    ELSE IF (mask \div 4) % 2 = 1 THEN 2
    ELSE 3

\* the highest set bit of a non-zero 4-bit mask
HighBit(mask) ==
    IF mask >= 8 THEN 3
    ELSE IF mask >= 4 THEN 2
    ELSE IF mask >= 2 THEN 1
    ELSE 0

FirstEqualIndexHigh(v, target) ==
    LET mask == neon_equal_mask4(v, target)
    IN  IF mask = 0 THEN 0 ELSE HighBit(mask)

neon_first_equal_index4(v, target) ==
    LET mask == neon_equal_mask4(v, target)
    IN  IF mask = 0 THEN 0 ELSE ctz(mask)

-----------------------------------------------------------------------------
(* sift_down: the policy, the minimum-child search, the loop *)

\* a hybrid policy whose pop phase does not look at the heap size
AllowSimdAnySize(c, i, n, heapify_phase) ==
    IF ~c.neon THEN FALSE
    ELSE IF c.policy = 1 THEN TRUE
    ELSE IF c.policy = 2 THEN
        IF heapify_phase
        THEN IF c.d >= c.buildMinArity
             THEN i <= n \div (c.d * c.d)
             ELSE FALSE
        ELSE c.d >= 16 /\ i = 0
    ELSE FALSE

\* a hybrid policy whose build phase does not look at the arity
AllowSimdAnyBuildArity(c, i, n, heapify_phase) ==
    IF ~c.neon THEN FALSE
    ELSE IF c.policy = 1 THEN TRUE
    ELSE IF c.policy = 2 THEN
        IF heapify_phase
        THEN i <= n \div (c.d * c.d)
        ELSE c.d >= 16 /\ i = 0 /\ n >= c.popMinSize
    ELSE FALSE

\* a hybrid policy whose build phase does not look at the node's index
AllowSimdAnyNode(c, i, n, heapify_phase) ==
    IF ~c.neon THEN FALSE
    ELSE IF c.policy = 1 THEN TRUE
    ELSE IF c.policy = 2 THEN
        IF heapify_phase
        THEN c.d >= c.buildMinArity
        ELSE c.d >= 16 /\ i = 0 /\ n >= c.popMinSize
    ELSE FALSE

\* allow_simd of one step at node i of a heap of n keys
AllowSimd(c, i, n, heapify_phase) ==
    IF ~c.neon THEN FALSE
    ELSE IF c.policy = 1 THEN TRUE
    ELSE IF c.policy = 2 THEN
        IF heapify_phase
        THEN IF c.d >= c.buildMinArity
             THEN i <= n \div (c.d * c.d)
             ELSE FALSE
        ELSE c.d >= 16 /\ i = 0 /\ n >= c.popMinSize
    ELSE FALSE

\* a dispatch that takes the four-lane path at any arity
SimdPathAnyArity(c, allow, ch, n) ==
    IF allow /\ ch + 3 < n THEN 4
    ELSE IF allow /\ c.d = 8 /\ ch + 7 < n THEN 8
    ELSE IF allow /\ c.d = 16 /\ ch + 15 < n THEN 16
    ELSE 0

\* which vector path the step takes: 4, 8, 16, or 0 for none
SimdPath(c, allow, ch, n) ==
    IF allow /\ c.d = 4 /\ ch + 3 < n THEN 4
    ELSE IF allow /\ c.d = 8 /\ ch + 7 < n THEN 8
    ELSE IF allow /\ c.d = 16 /\ ch + 15 < n THEN 16
    ELSE 0

\* the kD == 4 path
SimdMin4(keys, ch) ==
    LET v == vld1q_s32(keys, ch)
        reduced_min == neon_min4(v)
    IN  [min_val |-> reduced_min,
         min_idx |-> ch + neon_first_equal_index4(v, reduced_min)]

\* the kD == 8 path
SimdMin8(keys, ch) ==
    LET v0 == vld1q_s32(keys, ch)
        v1 == vld1q_s32(keys, ch + 4)
        min0 == neon_min4(v0)
        min1 == neon_min4(v1)
    IN  IF KeyLess(min1, min0)
        THEN [min_val |-> min1, min_idx |-> ch + 4 + neon_first_equal_index4(v1, min1)]
        ELSE [min_val |-> min0, min_idx |-> ch + neon_first_equal_index4(v0, min0)]

\* the kD == 16 path, from the four block minima on
BestBlock16(ch, v0, v1, v2, v3, block_mins) ==
    LET best_block_min == neon_min4(block_mins)
        block_idx == neon_first_equal_index4(block_mins, best_block_min)
    IN  [min_val |-> best_block_min,
         min_idx |->
            IF block_idx = 0 THEN ch + neon_first_equal_index4(v0, best_block_min)
            ELSE IF block_idx = 1 THEN ch + 4 + neon_first_equal_index4(v1, best_block_min)
            ELSE IF block_idx = 2 THEN ch + 8 + neon_first_equal_index4(v2, best_block_min)
            ELSE ch + 12 + neon_first_equal_index4(v3, best_block_min)]

\* the kD == 16 path
SimdMin16(keys, ch) ==
    LET v0 == vld1q_s32(keys, ch)
        v1 == vld1q_s32(keys, ch + 4)
        v2 == vld1q_s32(keys, ch + 8)
        v3 == vld1q_s32(keys, ch + 12)
    IN  BestBlock16(ch, v0, v1, v2, v3,
                    <<neon_min4(v0), neon_min4(v1), neon_min4(v2), neon_min4(v3)>>)

\* the scan keeping the last of equal minima
RECURSIVE ScalarScanLast(_, _, _, _, _)
ScalarScanLast(keys, j, end, min_val, min_idx) ==
    IF j >= end THEN [min_val |-> min_val, min_idx |-> min_idx]
    ELSE IF ~KeyLess(min_val, At(keys, j))
         THEN ScalarScanLast(keys, j + 1, end, At(keys, j), j)
         ELSE ScalarScanLast(keys, j + 1, end, min_val, min_idx)

\* the scan stopping one child short of the end
RECURSIVE ScalarScanShort(_, _, _, _, _)
ScalarScanShort(keys, j, end, min_val, min_idx) ==
    IF j >= end - 1 THEN [min_val |-> min_val, min_idx |-> min_idx]
    ELSE IF KeyLess(At(keys, j), min_val)
         THEN ScalarScanShort(keys, j + 1, end, At(keys, j), j)
         ELSE ScalarScanShort(keys, j + 1, end, min_val, min_idx)

\* the scalar scan: for (j = c + 1; j < end; ++j) if (heap_keys_[j] < min_val) ...
RECURSIVE ScalarScan(_, _, _, _, _)
ScalarScan(keys, j, end, min_val, min_idx) ==
    IF j >= end THEN [min_val |-> min_val, min_idx |-> min_idx]
    ELSE IF KeyLess(At(keys, j), min_val)
         THEN ScalarScan(keys, j + 1, end, At(keys, j), j)
         ELSE ScalarScan(keys, j + 1, end, min_val, min_idx)

\* a search that hands back the node itself as its minimum child
ScalarMinStuck(c, keys, ch, n) ==
    [min_val |-> At(keys, ch), min_idx |-> parent(c.d, ch)]

ScalarMin(c, keys, ch, n) ==
    ScalarScan(keys, ch + 1, MinNat(ch + c.d, n), At(keys, ch), ch)

\* the minimum child of one step, found on the given path
MinByPath(c, keys, ch, n, path) ==
    IF path = 4 THEN SimdMin4(keys, ch)
    ELSE IF path = 8 THEN SimdMin8(keys, ch)
    ELSE IF path = 16 THEN SimdMin16(keys, ch)
    ELSE ScalarMin(c, keys, ch, n)

\* the minimum child of one step: the policy, then the vector or scalar search
MinChild(c, keys, i, ch, n, heapify_phase) ==
    MinByPath(c, keys, ch, n, SimdPath(c, AllowSimd(c, i, n, heapify_phase), ch, n))

\* used_simd of one step
UsedSimd(c, i, ch, n, heapify_phase) ==
    SimdPath(c, AllowSimd(c, i, n, heapify_phase), ch, n) # 0

\* what one iteration of the loop did: the node, the heap size, the child found
StepRecord(c, i, ch, n, heapify_phase, m) ==
    [i |-> i, n |-> n, min_idx |-> m.min_idx, min_val |-> m.min_val,
     used_simd |-> UsedSimd(c, i, ch, n, heapify_phase), heapify |-> heapify_phase]

RECURSIVE SiftDownLoop(_, _, _, _, _, _, _, _)

\* an iteration that moves the child's key up and leaves its slot behind
SiftDownStepKeysOnly(c, keys, slots, i, key, slot, heapify_phase, trace, m) ==
    IF KeyGeq(m.min_val, key)
    THEN [keys |-> Put(keys, i, key), slots |-> Put(slots, i, slot), trace |-> trace]
    ELSE SiftDownLoop(c, Put(keys, i, At(keys, m.min_idx)), slots,
                      m.min_idx, key, slot, heapify_phase, trace)

\* one iteration of the loop past its `if (c >= n) break`, m the minimum child
SiftDownStep(c, keys, slots, i, key, slot, heapify_phase, trace, m) ==
    IF KeyGeq(m.min_val, key)
    THEN [keys |-> Put(keys, i, key), slots |-> Put(slots, i, slot), trace |-> trace]
    ELSE SiftDownLoop(c,
                      Put(keys, i, At(keys, m.min_idx)),
                      Put(slots, i, At(slots, m.min_idx)),
                      m.min_idx, key, slot, heapify_phase, trace)

\* the while (true) loop of sift_down, and the two stores after it
SiftDownLoop(c, keys, slots, i, key, slot, heapify_phase, trace) ==
    IF first_child(c.d, i) >= Len(keys)
    THEN [keys |-> Put(keys, i, key), slots |-> Put(slots, i, slot), trace |-> trace]
    ELSE SiftDownStep(c, keys, slots, i, key, slot, heapify_phase,
                      Append(trace,
                             StepRecord(c, i, first_child(c.d, i), Len(keys), heapify_phase,
                                        MinChild(c, keys, i, first_child(c.d, i), Len(keys),
                                                 heapify_phase))),
                      MinChild(c, keys, i, first_child(c.d, i), Len(keys), heapify_phase))

\* void sift_down(size_t i, bool heapify_phase), on a heap record
sift_down(c, h, i, heapify_phase, trace) ==
    SiftDownLoop(c, h.keys, h.slots, i, At(h.keys, i), At(h.slots, i), heapify_phase, trace)
        @@ [free |-> h.free, next |-> h.next]

-----------------------------------------------------------------------------
(* sift_up *)

\* a sift-up that also moves past an equal parent
RECURSIVE SiftUpLoopEq(_, _, _, _, _, _)
SiftUpLoopEq(c, keys, slots, i, key, slot) ==
    IF i > 0 /\ ~KeyLess(At(keys, parent(c.d, i)), key)
    THEN LET p == parent(c.d, i)
         IN  SiftUpLoopEq(c, Put(keys, i, At(keys, p)), Put(slots, i, At(slots, p)),
                          p, key, slot)
    ELSE [keys |-> Put(keys, i, key), slots |-> Put(slots, i, slot)]

\* a sift-up that moves the parents' keys down and leaves their slots behind
RECURSIVE SiftUpLoopKeysOnly(_, _, _, _, _, _)
SiftUpLoopKeysOnly(c, keys, slots, i, key, slot) ==
    IF i > 0 /\ ~KeyGeq(key, At(keys, parent(c.d, i)))
    THEN SiftUpLoopKeysOnly(c, Put(keys, i, At(keys, parent(c.d, i))), slots,
                            parent(c.d, i), key, slot)
    ELSE [keys |-> Put(keys, i, key), slots |-> Put(slots, i, slot)]

\* a sift-up with `if` for `while`: at most one level up
SiftUpOnce(c, keys, slots, i, key, slot) ==
    IF i > 0 /\ ~KeyGeq(key, At(keys, parent(c.d, i)))
    THEN [keys  |-> Put(Put(keys, i, At(keys, parent(c.d, i))), parent(c.d, i), key),
          slots |-> Put(Put(slots, i, At(slots, parent(c.d, i))), parent(c.d, i), slot)]
    ELSE [keys |-> Put(keys, i, key), slots |-> Put(slots, i, slot)]

\* the while (i > 0) loop of sift_up, and the two stores after it
RECURSIVE SiftUpLoop(_, _, _, _, _, _)
SiftUpLoop(c, keys, slots, i, key, slot) ==
    IF i > 0 /\ ~KeyGeq(key, At(keys, parent(c.d, i)))
    THEN LET p == parent(c.d, i)
         IN  SiftUpLoop(c, Put(keys, i, At(keys, p)), Put(slots, i, At(slots, p)),
                        p, key, slot)
    ELSE [keys |-> Put(keys, i, key), slots |-> Put(slots, i, slot)]

\* void sift_up(size_t i), on a heap record
sift_up(c, h, i) ==
    SiftUpLoop(c, h.keys, h.slots, i, At(h.keys, i), At(h.slots, i))
        @@ [free |-> h.free, next |-> h.next, trace |-> <<>>]

-----------------------------------------------------------------------------
(* The heap object as a record, and its operations as functions of it *)

\* DHeap4Simd() = default
EmptyHeap == [keys |-> <<>>, slots |-> <<>>, free |-> <<>>, next |-> 0, trace |-> <<>>]

\* an acquire_slot() that mints a slot whatever the free list holds
AcquireAlwaysMints(h) == [slot |-> h.next, free |-> h.free, next |-> h.next + 1]

\* slot_type acquire_slot(): the slot handed out and the pool after it
acquire_slot(h) ==
    IF h.free # <<>>
    THEN [slot |-> Back(h.free), free |-> PopBack(h.free), next |-> h.next]
    ELSE [slot |-> h.next, free |-> h.free, next |-> h.next + 1]

\* a release that drops the slot
ReleaseNothing(free, slot) == free

\* a release that puts the slot on the free list twice
ReleaseTwice(free, slot) == Append(Append(free, slot), slot)

\* void release_slot(slot_type slot)
release_slot(free, slot) == Append(free, slot)

\* void push(value_type v)
push(c, h, v) ==
    LET a  == acquire_slot(h)
        h1 == [keys |-> Append(h.keys, v), slots |-> Append(h.slots, a.slot),
               free |-> a.free, next |-> a.next, trace |-> <<>>]
    IN  sift_up(c, h1, Len(h1.keys) - 1)

\* what a call returns: the object after it and the exception, if any
Return(h, val) == [heap |-> h, err |-> "none", val |-> val]

Throw(h) == [heap |-> h, err |-> "EmptyContainer", val |-> Null]

\* size_t size() const
size(h) == Len(h.keys)

\* bool empty() const
empty(h) == h.keys = <<>>

\* a top() that hands the root's slot to the free list as it reads the key
TopReleases(h) ==
    IF h.keys = <<>> THEN Throw(h)
    ELSE Return([h EXCEPT !.free = release_slot(h.free, At(h.slots, 0))], At(h.keys, 0))

\* const value_type& top() const
top(h) == IF empty(h) THEN Throw(h) ELSE Return(h, At(h.keys, 0))

\* a pop() that moves the last pair to the root and does not sift it down
PopNoSift(c, h) ==
    IF Len(h.keys) = 1
    THEN [h EXCEPT !.keys = PopBack(h.keys), !.slots = PopBack(h.slots),
                   !.free = release_slot(h.free, At(h.slots, 0)), !.trace = <<>>]
    ELSE [keys  |-> PopBack(Put(h.keys, 0, Back(h.keys))),
          slots |-> PopBack(Put(h.slots, 0, Back(h.slots))),
          free  |-> release_slot(h.free, At(h.slots, 0)),
          next  |-> h.next, trace |-> <<>>]

\* a pop() whose single-element branch releases the slot and keeps the arrays
PopNoShrink(c, h) ==
    IF Len(h.keys) = 1
    THEN [h EXCEPT !.free = release_slot(h.free, At(h.slots, 0)), !.trace = <<>>]
    ELSE sift_down(c,
                   [keys  |-> PopBack(Put(h.keys, 0, Back(h.keys))),
                    slots |-> PopBack(Put(h.slots, 0, Back(h.slots))),
                    free  |-> release_slot(h.free, At(h.slots, 0)),
                    next  |-> h.next, trace |-> <<>>],
                   0, FALSE, <<>>)

\* a pop() that releases the slot of the last pair, not the root's
PopFreesLast(c, h) ==
    IF Len(h.keys) = 1
    THEN [h EXCEPT !.keys = PopBack(h.keys), !.slots = PopBack(h.slots),
                   !.free = release_slot(h.free, At(h.slots, 0)), !.trace = <<>>]
    ELSE sift_down(c,
                   [keys  |-> PopBack(Put(h.keys, 0, Back(h.keys))),
                    slots |-> PopBack(Put(h.slots, 0, Back(h.slots))),
                    free  |-> release_slot(h.free, Back(h.slots)),
                    next  |-> h.next, trace |-> <<>>],
                   0, FALSE, <<>>)

\* pop() past its emptiness check
PopNonEmpty(c, h) ==
    LET root_slot == At(h.slots, 0)
    IN  IF Len(h.keys) = 1
        THEN [h EXCEPT !.keys = PopBack(h.keys), !.slots = PopBack(h.slots),
                       !.free = release_slot(h.free, root_slot), !.trace = <<>>]
        ELSE LET h1 == [keys  |-> PopBack(Put(h.keys, 0, Back(h.keys))),
                        slots |-> PopBack(Put(h.slots, 0, Back(h.slots))),
                        free  |-> release_slot(h.free, root_slot),
                        next  |-> h.next, trace |-> <<>>]
             IN  sift_down(c, h1, 0, FALSE, <<>>)

\* a pop() that returns quietly on an empty heap after releasing slot 0
PopUnchecked(c, h) ==
    IF h.keys = <<>>
    THEN Return([h EXCEPT !.free = release_slot(h.free, 0)], Null)
    ELSE Return(PopNonEmpty(c, h), Null)

\* void pop()
pop(c, h) ==
    IF empty(h) THEN Throw(h) ELSE Return(PopNonEmpty(c, h), Null)

\* the acquire_slot() loop of the constructor
RECURSIVE AcquireAll(_, _)
AcquireAll(h, k) ==
    IF k = 0 THEN h
    ELSE LET a == acquire_slot(h)
         IN  AcquireAll([h EXCEPT !.slots = Append(h.slots, a.slot),
                                  !.free = a.free, !.next = a.next], k - 1)

\* a heapify loop that stops before the root (i > 1)
RECURSIVE HeapifySkipRoot(_, _, _)
HeapifySkipRoot(c, h, i) ==
    IF i > 1 THEN HeapifySkipRoot(c, sift_down(c, h, i - 1, TRUE, h.trace), i - 1) ELSE h

\* for (i = parent(size - 1) + 1; i > 0; --i) sift_down(i - 1, true)
RECURSIVE Heapify(_, _, _)
Heapify(c, h, i) ==
    IF i > 0 THEN Heapify(c, sift_down(c, h, i - 1, TRUE, h.trace), i - 1) ELSE h

\* explicit DHeap4Simd(std::vector<value_type> data)
Construct(c, data) ==
    LET h0 == AcquireAll([EmptyHeap EXCEPT !.keys = data], Len(data))
    IN  IF Len(data) > 1
        THEN Heapify(c, h0, parent(c.d, Len(data) - 1) + 1)
        ELSE h0

\* a clear() that empties the vectors and keeps the slot counter
ClearKeepsCounter(h) == [EmptyHeap EXCEPT !.next = h.next]

\* void clear()
clear(h) == EmptyHeap

\* a reserve() that grows the vectors themselves, as resize() would
ReserveResizes(h, n) ==
    IF n > Len(h.keys)
    THEN [h EXCEPT !.keys = h.keys \o [k \in 1 .. n - Len(h.keys) |-> 0],
                   !.slots = h.slots \o [k \in 1 .. n - Len(h.slots) |-> 0]]
    ELSE h

\* void reserve(size_t n): only the vectors' capacity changes, which no call
\* of the class reads back; their contents and lengths stay
reserve(h, n) == h

-----------------------------------------------------------------------------
(* The reference priority queue of the tests: a bag of keys *)

RefEmpty == EmptyBag

RefPush(b, v) == b (+) SetToBag({v})

RefTop(b) == CHOOSE v \in BagToSet(b) : \A w \in BagToSet(b) : v <= w

RefPop(b) == b (-) SetToBag({RefTop(b)})

RefSize(b) == BagCardinality(b)

RECURSIVE SeqToBag(_)
SeqToBag(s) == IF s = <<>> THEN EmptyBag ELSE SeqToBag(Tail(s)) (+) SetToBag({Head(s)})

-----------------------------------------------------------------------------
(* The general specification: one heap object under every public call *)

Self == [keys |-> heap_keys_, slots |-> heap_slots_, free |-> free_slots_,
         next |-> next_slot_, trace |-> <<>>]

\* the object's fields are those of h
HeapIs(h) ==
    /\ heap_keys_ = h.keys
    /\ heap_slots_ = h.slots
    /\ free_slots_ = h.free
    /\ next_slot_ = h.next
    /\ sift_trace = h.trace

\* the object's fields after a call
Becomes(h) ==
    /\ heap_keys_' = h.keys
    /\ heap_slots_' = h.slots
    /\ free_slots_' = h.free
    /\ next_slot_' = h.next
    /\ sift_trace' = h.trace

\* the record of a call: its name, its argument, its exception, its value,
\* and the size of the heap it was made on
Called(op, arg, r) ==
    [op |-> op, arg |-> arg, err |-> r.err, val |-> r.val, before |-> Len(heap_keys_)]

\* the record a constructor leaves
Built(op, arg) == [op |-> op, arg |-> arg, err |-> "none", val |-> Null, before |-> 0]

\* the slots a constructor issues: slot s for the key data[s]
IssuedAtConstruct(data) == [s \in 0 .. Len(data) - 1 |-> At(data, s)]

\* push(v) issues the slot acquire_slot() returns, for the key v
IssuedAfterPush(h, v) == (acquire_slot(h).slot :> v) @@ issued

\* pop() releases the root's slot, unless it throws
IssuedAfterPop(h) ==
    IF empty(h) THEN issued
    ELSE [s \in DOMAIN issued \ {At(h.slots, 0)} |-> issued[s]]

\* the slots in issue after the call op(arg) on this object
Ledger(op, arg) ==
    CASE op = "push" -> IssuedAfterPush(Self, arg)
      [] op = "pop" -> IssuedAfterPop(Self)
      [] op = "clear" -> <<>>
      [] OTHER -> issued

\* a call is made: the object becomes what it leaves, the call is recorded
Performs(op, arg, r) ==
    /\ Becomes(r.heap)
    /\ result' = Called(op, arg, r)
    /\ issued' = Ledger(op, arg)

\* no call is in progress
Idle == [pc |-> "idle", i |-> 0, key |-> 0, slot |-> 0, heapify_phase |-> FALSE, loop |-> 0]

runVars == <<calls, frame>>

scenarioVars == <<twin, input, out, nPush, nPop, phase, calls, frame>>

\* the build configurations the general specification runs under
MainConfigs ==
    {DefaultConfig, [DefaultConfig EXCEPT !.policy = 1], [DefaultConfig EXCEPT !.d = 2]}

\* the key sequences handed to the constructor
Inputs == UNION {[1 .. n -> Keys] : n \in 0 .. MaxSize}

\* DHeap4Simd heap;
InitDefault ==
    /\ HeapIs(EmptyHeap)
    /\ result = Built("new", Null)
    /\ ref = RefEmpty
    /\ issued = <<>>

\* DHeap4Simd heap(data);
InitFrom(data) ==
    /\ HeapIs(Construct(cfg, data))
    /\ result = Built("construct", data)
    /\ ref = SeqToBag(data)
    /\ issued = IssuedAtConstruct(data)

Init ==
    /\ cfg \in MainConfigs
    /\ \/ InitDefault
       \/ \E data \in Inputs : InitFrom(data)
    /\ twin = Null /\ input = <<>> /\ out = <<>> /\ nPush = 0 /\ nPop = 0
    /\ phase = "api" /\ calls = <<>> /\ frame = Idle

\* heap.push(v)
Push(v) ==
    /\ Len(heap_keys_) < MaxSize
    /\ Performs("push", v, Return(push(cfg, Self, v), Null))
    /\ ref' = RefPush(ref, v)
    /\ UNCHANGED <<cfg, scenarioVars>>

\* heap.pop(), and stl_heap.pop() when the CHECK(!heap.empty()) before it passes
Pop ==
    /\ Performs("pop", Null, pop(cfg, Self))
    /\ ref' = IF heap_keys_ = <<>> THEN ref ELSE RefPop(ref)
    /\ UNCHANGED <<cfg, scenarioVars>>

\* heap.top()
Top ==
    /\ Performs("top", Null, top(Self))
    /\ UNCHANGED <<cfg, ref, scenarioVars>>

\* heap.size()
Size ==
    /\ Performs("size", Null, Return(Self, size(Self)))
    /\ UNCHANGED <<cfg, ref, scenarioVars>>

\* heap.empty()
Empty ==
    /\ Performs("empty", Null, Return(Self, empty(Self)))
    /\ UNCHANGED <<cfg, ref, scenarioVars>>

\* heap.clear()
Clear ==
    /\ Performs("clear", Null, Return(clear(Self), Null))
    /\ ref' = RefEmpty
    /\ UNCHANGED <<cfg, scenarioVars>>

\* heap.reserve(n)
Reserve(n) ==
    /\ Performs("reserve", n, Return(reserve(Self, n), Null))
    /\ UNCHANGED <<cfg, ref, scenarioVars>>

Next ==
    \/ \E v \in Keys : Push(v)
    \/ Pop
    \/ Top
    \/ Size
    \/ Empty
    \/ Clear
    \/ \E n \in 0 .. MaxReserve : Reserve(n)

Spec == Init /\ [][Next]_vars

-----------------------------------------------------------------------------
(* The fill-then-drain scenario of test_sorted_output, test_build_from_vector *)
(* and test_boundary_values: keys are pushed one by one, then the heap and  *)
(* a second heap bulk-constructed from the same keys are drained by         *)
(* top() / pop() until empty.                                               *)

\* min_v, near_min, 0, near_max, max_v of test_boundary_values
BoundaryKeys == {INT32_MIN, INT32_MIN + 1, 0, INT32_MAX - 1, INT32_MAX}

\* std::sort: insertion of x into a sorted sequence, and the sort built on it
RECURSIVE SortedInsert(_, _)
SortedInsert(s, x) ==
    IF s = <<>> THEN <<x>>
    ELSE IF x <= Head(s) THEN <<x>> \o s
    ELSE <<Head(s)>> \o SortedInsert(Tail(s), x)

RECURSIVE std_sort(_)
std_sort(s) == IF s = <<>> THEN <<>> ELSE SortedInsert(std_sort(Tail(s)), Head(s))

\* one round of: output.push_back(heap.top()); heap.pop();
DrainOne(c, h, o) ==
    LET t == top(h)
        r == pop(c, h)
    IN  [heap |-> r.heap, out |-> IF t.err = "none" THEN Append(o, t.val) ELSE o,
         err |-> r.err, val |-> t.val]

DrainInit ==
    /\ cfg \in MainConfigs
    /\ HeapIs(EmptyHeap)
    /\ result = Built("new", Null)
    /\ ref = RefEmpty
    /\ twin = Null /\ input = <<>> /\ out = <<>> /\ nPush = 0 /\ nPop = 0
    /\ phase = "fill" /\ issued = <<>> /\ calls = <<>> /\ frame = Idle

\* for (int32_t v : input) heap.push(v);
FillPush(v) ==
    /\ phase = "fill"
    /\ Len(input) < MaxLen
    /\ Performs("push", v, Return(push(cfg, Self, v), Null))
    /\ input' = Append(input, v)
    /\ UNCHANGED <<cfg, ref, twin, out, nPush, nPop, phase, runVars>>

\* the pushes are over; DHeap4Simd heap(input) builds the second heap
StartDrain ==
    /\ phase = "fill"
    /\ phase' = "drain"
    /\ twin' = [heap |-> Construct(cfg, input), out |-> <<>>]
    /\ result' = Called("construct", input, Return(Self, Null))
    /\ sift_trace' = <<>>
    /\ UNCHANGED <<cfg, heapVars, ref, input, out, nPush, nPop, issued, runVars>>

\* while (!heap.empty()) { output.push_back(heap.top()); heap.pop(); }
DrainStep ==
    /\ phase = "drain"
    /\ heap_keys_ # <<>> \/ twin.heap.keys # <<>>
    /\ LET a == DrainOne(cfg, Self, out)
           b == DrainOne(cfg, twin.heap, twin.out)
       IN  /\ IF heap_keys_ # <<>>
              THEN Becomes(a.heap) /\ out' = a.out
              ELSE UNCHANGED <<heapVars, sift_trace, out>>
           /\ twin' = IF twin.heap.keys # <<>>
                      THEN [heap |-> b.heap, out |-> b.out]
                      ELSE twin
           /\ result' = Called("pop", Null, a)
    /\ issued' = IssuedAfterPop(Self)
    /\ UNCHANGED <<cfg, ref, input, nPush, nPop, phase, runVars>>

\* both loops have ended
DrainEnd ==
    /\ phase = "drain"
    /\ heap_keys_ = <<>> /\ twin.heap.keys = <<>>
    /\ phase' = "done"
    /\ UNCHANGED <<cfg, heapVars, sift_trace, result, ref, twin, input, out, nPush, nPop,
                   issued, runVars>>

DrainNext ==
    \/ \E v \in BoundaryKeys : FillPush(v)
    \/ StartDrain
    \/ DrainStep
    \/ DrainEnd

SpecDrain == DrainInit /\ [][DrainNext]_vars

-----------------------------------------------------------------------------
(* The push/pop counting scenario of test_long_random_differential: from an *)
(* empty heap, push and pop in any order, counting the calls that succeed,  *)
(* with size() and empty() read in between.                                 *)

OpsInit ==
    /\ cfg \in MainConfigs
    /\ HeapIs(EmptyHeap)
    /\ result = Built("new", Null)
    /\ ref = RefEmpty
    /\ twin = Null /\ input = <<>> /\ out = <<>> /\ nPush = 0 /\ nPop = 0
    /\ phase = "ops" /\ issued = <<>> /\ calls = <<>> /\ frame = Idle

OpsPush(v) ==
    /\ nPush < MaxOps
    /\ Performs("push", v, Return(push(cfg, Self, v), Null))
    /\ nPush' = nPush + 1
    /\ UNCHANGED <<cfg, ref, twin, input, out, nPop, phase, runVars>>

OpsPop ==
    /\ Performs("pop", Null, pop(cfg, Self))
    /\ nPop' = IF pop(cfg, Self).err = "none" THEN nPop + 1 ELSE nPop
    /\ UNCHANGED <<cfg, ref, twin, input, out, nPush, phase, runVars>>

\* heap.size() and heap.empty(), read together
OpsObserve ==
    /\ Performs("observe", Null,
                Return(Self, [size |-> size(Self), empty |-> empty(Self)]))
    /\ UNCHANGED <<cfg, ref, twin, input, out, nPush, nPop, phase, runVars>>

OpsNext ==
    \/ \E v \in Keys : OpsPush(v)
    \/ OpsPop
    \/ OpsObserve

SpecOps == OpsInit /\ [][OpsNext]_vars

-----------------------------------------------------------------------------
(* The slot pool scenario: from an empty heap, push, pop and clear in any   *)
(* order, the names of the calls kept in order.                             *)

PoolInit ==
    /\ cfg \in MainConfigs
    /\ HeapIs(EmptyHeap)
    /\ result = Built("new", Null)
    /\ ref = RefEmpty
    /\ twin = Null /\ input = <<>> /\ out = <<>> /\ nPush = 0 /\ nPop = 0
    /\ phase = "pool" /\ issued = <<>> /\ calls = <<>> /\ frame = Idle

\* the call op is made and written down
Logs(op) ==
    /\ Len(calls) < MaxCalls
    /\ calls' = Append(calls, op)
    /\ UNCHANGED <<cfg, ref, twin, input, out, nPush, nPop, phase, frame>>

PoolPush(v) ==
    /\ Performs("push", v, Return(push(cfg, Self, v), Null))
    /\ Logs("push")

PoolPop ==
    /\ Performs("pop", Null, pop(cfg, Self))
    /\ Logs("pop")

PoolClear ==
    /\ Performs("clear", Null, Return(clear(Self), Null))
    /\ Logs("clear")

PoolNext ==
    \/ \E v \in Keys : PoolPush(v)
    \/ PoolPop
    \/ PoolClear

SpecPool == PoolInit /\ [][PoolNext]_vars

-----------------------------------------------------------------------------
(* Two heaps run side by side on the same calls: this object, built with    *)
(* DHEAP_SIMD_POLICY 1 (always vectorize), and a twin built with            *)
(* DHEAP_SIMD_POLICY 0 (never vectorize), for each arity with a vector path. *)

\* the arities with a vector path
VSArities == {4, 8, 16}

\* at most this many keys of a constructor input differ from the others
MaxOdd == 2
\* push calls are made among the first MaxVSOps calls after construction
MaxVSOps == 2

\* the sequences of length n holding b except at the positions odd
Sparse(n, b, odd) == [k \in 1 .. n |-> IF k \in odd THEN 1 - b ELSE b]

\* the constructor inputs: d + 1 or d + 2 keys (the root's children fill a
\* block), all 0 or all 1 but for at most MaxOdd positions
VSInputs(d) ==
    {Sparse(n, b, odd) :
        n \in {d + 1, d + 2}, b \in {0, 1},
        odd \in {o \in SUBSET (1 .. d + 2) : Cardinality(o) <= MaxOdd}}

ScalarOf(c) == [c EXCEPT !.policy = 0]

VSInit ==
    /\ cfg \in {[DefaultConfig EXCEPT !.d = d, !.policy = 1] : d \in VSArities}
    /\ \/ HeapIs(EmptyHeap) /\ twin = EmptyHeap /\ issued = <<>>
       \/ \E data \in VSInputs(cfg.d) :
            /\ HeapIs(Construct(cfg, data))
            /\ twin = Construct(ScalarOf(cfg), data)
            /\ issued = IssuedAtConstruct(data)
    /\ result = Built("new", Null)
    /\ ref = RefEmpty
    /\ input = <<>> /\ out = <<>> /\ nPush = 0 /\ nPop = 0
    /\ phase = "vs" /\ calls = <<>> /\ frame = Idle

VSPush(v) ==
    /\ nPush + nPop < MaxVSOps
    /\ Len(heap_keys_) < cfg.d + 2
    /\ Performs("push", v, Return(push(cfg, Self, v), Null))
    /\ twin' = push(ScalarOf(cfg), twin, v)
    /\ nPush' = nPush + 1
    /\ UNCHANGED <<cfg, ref, input, out, nPop, phase, runVars>>

VSPop ==
    /\ heap_keys_ # <<>> /\ twin.keys # <<>>
    /\ Performs("pop", Null, pop(cfg, Self))
    /\ twin' = pop(ScalarOf(cfg), twin).heap
    /\ nPop' = IF nPush + nPop < MaxVSOps THEN nPop + 1 ELSE nPop
    /\ UNCHANGED <<cfg, ref, input, out, nPush, phase, runVars>>

VSNext ==
    \/ \E v \in {0, 1} : VSPush(v)
    \/ VSPop

SpecVS == VSInit /\ [][VSNext]_vars

-----------------------------------------------------------------------------
(* The same two heaps with this object built under DHEAP_SIMD_POLICY 2      *)
(* (hybrid), for each arity with a vector path, with DHEAP_SIMD_POP_MIN_SIZE *)
(* at its default and at a size the heaps of the model reach.               *)

\* the values of DHEAP_SIMD_POP_MIN_SIZE for arity d
PopMinSizes(d) == {d + 2, DHEAP_SIMD_POP_MIN_SIZE}

HybridConfigs ==
    UNION {{[DefaultConfig EXCEPT !.d = d, !.popMinSize = s] : s \in PopMinSizes(d)} :
            d \in VSArities}

\* the sets of at most m positions among 1..n
RECURSIVE Positions(_, _)
Positions(n, m) ==
    IF m = 0 THEN {{}}
    ELSE Positions(n, m - 1) \cup {o \cup {j} : o \in Positions(n, m - 1), j \in 1 .. n}

\* the constructor inputs: d + 2, d + 3 or 2d + 2 keys (after a pop the root's
\* children fill a block, node 1 has a child, node 1's children fill a
\* block), all 0 or all 1 but for at most MaxOdd positions
HybridInputs(d) ==
    {Sparse(n, b, odd) :
        n \in {d + 2, d + 3, 2 * d + 2}, b \in {0, 1}, odd \in Positions(2 * d + 2, MaxOdd)}

HybridInit ==
    /\ cfg \in HybridConfigs
    /\ \E data \in HybridInputs(cfg.d) :
         /\ HeapIs(Construct(cfg, data))
         /\ twin = Construct(ScalarOf(cfg), data)
         /\ issued = IssuedAtConstruct(data)
         /\ result = Built("construct", data)
    /\ ref = RefEmpty
    /\ input = <<>> /\ out = <<>> /\ nPush = 0 /\ nPop = 0
    /\ phase = "hybrid" /\ calls = <<>> /\ frame = Idle

SpecHybrid == HybridInit /\ [][VSNext]_vars

-----------------------------------------------------------------------------
(* The member functions run statement by statement: the constructor's       *)
(* heapify loop, then push and pop calls, with one action for each          *)
(* iteration of the loops of sift_down and sift_up. The locals of the call  *)
(* in progress are in frame: pc is the function running, i, key and slot    *)
(* are those of sift_up / sift_down, loop is the constructor's i.           *)

RunArities == {2, 4, 8, 16}

\* every arity under never-vectorize and under always-vectorize
RunConfigs ==
    {[DefaultConfig EXCEPT !.d = d, !.policy = p] : d \in RunArities, p \in {0, 1}}

\* the constructor inputs: every key sequence up to MaxSize keys for the
\* arities below MaxSize; for the wider ones d, d + 1 or d + 2 keys (a short
\* tail, a full block, a second inner node), all 0 or all 1 but for at most
\* MaxOdd positions
RunInputs(d) ==
    IF d < MaxSize THEN Inputs
    ELSE {Sparse(n, b, odd) :
            n \in {d, d + 1, d + 2}, b \in {0, 1},
            odd \in {o \in SUBSET (1 .. d + 2) : Cardinality(o) <= MaxOdd}}

\* a loop that starts at the last non-leaf index, which i - 1 then misses
HeapifyStartLow(d, n) == parent(d, n - 1)

\* the first value of the constructor's loop variable
HeapifyStart(d, n) == parent(d, n - 1) + 1

\* the locals of sift_down(i, heapify_phase) at its first iteration
EnterSiftDown(keys, slots, i, heapify_phase, loop) ==
    [pc |-> "sift_down", i |-> i, key |-> At(keys, i), slot |-> At(slots, i),
     heapify_phase |-> heapify_phase, loop |-> loop]

\* the locals of sift_up(i) at its first iteration
EnterSiftUp(keys, slots, i) ==
    [pc |-> "sift_up", i |-> i, key |-> At(keys, i), slot |-> At(slots, i),
     heapify_phase |-> FALSE, loop |-> 0]

\* the entry of calls for a sift_down or sift_up call
SiftCall(fn, i, heapify_phase) == [fn |-> fn, i |-> i, heapify_phase |-> heapify_phase]

\* the constructor up to its `if (heap_keys_.size() > 1)`
RunInit ==
    /\ cfg \in RunConfigs
    /\ \E data \in RunInputs(cfg.d) :
         /\ HeapIs(AcquireAll([EmptyHeap EXCEPT !.keys = data], Len(data)))
         /\ input = data
         /\ issued = IssuedAtConstruct(data)
         /\ result = Built("construct", data)
         /\ frame = IF Len(data) > 1
                    THEN [Idle EXCEPT !.pc = "heapify", !.loop = HeapifyStart(cfg.d, Len(data))]
                    ELSE Idle
    /\ ref = RefEmpty
    /\ twin = Null /\ out = <<>> /\ nPush = 0 /\ nPop = 0
    /\ phase = "run" /\ calls = <<>>

\* for (...; i > 0; --i) sift_down(i - 1, true): the call is entered
HeapifyCall ==
    /\ frame.pc = "heapify" /\ frame.loop > 0
    /\ frame' = EnterSiftDown(heap_keys_, heap_slots_, frame.loop - 1, TRUE, frame.loop - 1)
    /\ calls' = Append(calls, SiftCall("sift_down", frame.loop - 1, TRUE))
    /\ sift_trace' = <<>>
    /\ UNCHANGED <<cfg, heapVars, result, ref, twin, input, out, nPush, nPop, phase, issued>>

\* the constructor's loop ends and the constructor returns
HeapifyEnd ==
    /\ frame.pc = "heapify" /\ frame.loop = 0
    /\ frame' = Idle
    /\ UNCHANGED <<cfg, heapVars, sift_trace, result, ref, twin, input, out, nPush, nPop,
                   phase, issued, calls>>

\* an iteration of sift_down's loop that goes on: the child found, m, moves up
SiftDownMovesTo(m) ==
    /\ ~KeyGeq(m.min_val, frame.key)
    /\ heap_keys_' = Put(heap_keys_, frame.i, At(heap_keys_, m.min_idx))
    /\ heap_slots_' = Put(heap_slots_, frame.i, At(heap_slots_, m.min_idx))
    /\ frame' = [frame EXCEPT !.i = m.min_idx]
    /\ sift_trace' = Append(sift_trace,
                            StepRecord(cfg, frame.i, first_child(cfg.d, frame.i),
                                       Len(heap_keys_), frame.heapify_phase, m))

SiftDownMove ==
    /\ frame.pc = "sift_down"
    /\ first_child(cfg.d, frame.i) < Len(heap_keys_)
    /\ \E m \in {MinChild(cfg, heap_keys_, frame.i, first_child(cfg.d, frame.i),
                           Len(heap_keys_), frame.heapify_phase)} :
          SiftDownMovesTo(m)
    /\ UNCHANGED <<cfg, free_slots_, next_slot_, result, ref, twin, input, out, nPush, nPop,
                   phase, issued, calls>>

\* sift_down returns: to the constructor's loop, or to pop, which returns
SiftDownReturns ==
    /\ heap_keys_' = Put(heap_keys_, frame.i, frame.key)
    /\ heap_slots_' = Put(heap_slots_, frame.i, frame.slot)
    /\ frame' = IF frame.heapify_phase
                THEN [Idle EXCEPT !.pc = "heapify", !.loop = frame.loop]
                ELSE Idle

\* the iteration that ends at `if (min_val >= key) break`, m the child found
SiftDownStopsAt(m) ==
    /\ KeyGeq(m.min_val, frame.key)
    /\ sift_trace' = Append(sift_trace,
                            StepRecord(cfg, frame.i, first_child(cfg.d, frame.i),
                                       Len(heap_keys_), frame.heapify_phase, m))

\* the iteration of sift_down's loop that breaks, and the two stores after it
SiftDownBreak ==
    /\ frame.pc = "sift_down"
    /\ \/ /\ first_child(cfg.d, frame.i) >= Len(heap_keys_)
          /\ sift_trace' = sift_trace
       \/ /\ first_child(cfg.d, frame.i) < Len(heap_keys_)
          /\ \E m \in {MinChild(cfg, heap_keys_, frame.i, first_child(cfg.d, frame.i),
                                 Len(heap_keys_), frame.heapify_phase)} :
                SiftDownStopsAt(m)
    /\ SiftDownReturns
    /\ UNCHANGED <<cfg, free_slots_, next_slot_, result, ref, twin, input, out, nPush, nPop,
                   phase, issued, calls>>

\* push(v) up to its call of sift_up
RunPush(v) ==
    /\ frame.pc = "idle"
    /\ nPush + nPop < MaxRunOps
    /\ heap_keys_' = Append(heap_keys_, v)
    /\ heap_slots_' = Append(heap_slots_, acquire_slot(Self).slot)
    /\ free_slots_' = acquire_slot(Self).free
    /\ next_slot_' = acquire_slot(Self).next
    /\ frame' = EnterSiftUp(heap_keys_', heap_slots_', Len(heap_keys_))
    /\ calls' = Append(calls, SiftCall("sift_up", Len(heap_keys_), FALSE))
    /\ sift_trace' = <<>>
    /\ result' = Called("push", v, Return(Self, Null))
    /\ issued' = IssuedAfterPush(Self, v)
    /\ nPush' = nPush + 1
    /\ UNCHANGED <<cfg, ref, twin, input, out, nPop, phase>>

\* an iteration of sift_up's loop that goes on: the parent's pair moves down
SiftUpMove ==
    /\ frame.pc = "sift_up"
    /\ frame.i > 0
    /\ ~KeyGeq(frame.key, At(heap_keys_, parent(cfg.d, frame.i)))
    /\ heap_keys_' = Put(heap_keys_, frame.i, At(heap_keys_, parent(cfg.d, frame.i)))
    /\ heap_slots_' = Put(heap_slots_, frame.i, At(heap_slots_, parent(cfg.d, frame.i)))
    /\ frame' = [frame EXCEPT !.i = parent(cfg.d, frame.i)]
    /\ UNCHANGED <<cfg, free_slots_, next_slot_, sift_trace, result, ref, twin, input, out,
                   nPush, nPop, phase, issued, calls>>

\* sift_up's loop ends, by i == 0 or by the break; the two stores; push returns
SiftUpBreak ==
    /\ frame.pc = "sift_up"
    /\ \/ frame.i = 0
       \/ /\ frame.i > 0
          /\ KeyGeq(frame.key, At(heap_keys_, parent(cfg.d, frame.i)))
    /\ heap_keys_' = Put(heap_keys_, frame.i, frame.key)
    /\ heap_slots_' = Put(heap_slots_, frame.i, frame.slot)
    /\ frame' = Idle
    /\ UNCHANGED <<cfg, free_slots_, next_slot_, sift_trace, result, ref, twin, input, out,
                   nPush, nPop, phase, issued, calls>>

\* pop() on an empty heap: the throw
RunPopThrows ==
    /\ heap_keys_ = <<>>
    /\ result' = Called("pop", Null, Throw(Self))
    /\ UNCHANGED <<heapVars, frame, calls, issued, nPop>>

\* pop() on a heap of one key
RunPopLast ==
    /\ Len(heap_keys_) = 1
    /\ heap_keys_' = PopBack(heap_keys_)
    /\ heap_slots_' = PopBack(heap_slots_)
    /\ free_slots_' = release_slot(free_slots_, At(heap_slots_, 0))
    /\ result' = Called("pop", Null, Return(Self, Null))
    /\ issued' = IssuedAfterPop(Self)
    /\ nPop' = nPop + 1
    /\ UNCHANGED <<next_slot_, frame, calls>>

\* pop() on a larger heap, up to its call of sift_down
RunPopRoot ==
    /\ Len(heap_keys_) > 1
    /\ heap_keys_' = PopBack(Put(heap_keys_, 0, Back(heap_keys_)))
    /\ heap_slots_' = PopBack(Put(heap_slots_, 0, Back(heap_slots_)))
    /\ free_slots_' = release_slot(free_slots_, At(heap_slots_, 0))
    /\ frame' = EnterSiftDown(heap_keys_', heap_slots_', 0, FALSE, 0)
    /\ calls' = Append(calls, SiftCall("sift_down", 0, FALSE))
    /\ result' = Called("pop", Null, Return(Self, Null))
    /\ issued' = IssuedAfterPop(Self)
    /\ nPop' = nPop + 1
    /\ UNCHANGED next_slot_

RunPop ==
    /\ frame.pc = "idle"
    /\ nPush + nPop < MaxRunOps
    /\ \/ RunPopThrows
       \/ RunPopLast
       \/ RunPopRoot
    /\ sift_trace' = <<>>
    /\ UNCHANGED <<cfg, ref, twin, input, out, nPush, phase>>

\* the statements inside a call
RunStep ==
    \/ HeapifyCall
    \/ HeapifyEnd
    \/ SiftDownMove
    \/ SiftDownBreak
    \/ SiftUpMove
    \/ SiftUpBreak

RunNext ==
    \/ RunStep
    \/ \E v \in Keys : RunPush(v)
    \/ RunPop

SpecRun == RunInit /\ [][RunNext]_vars

\* a call that has begun goes on to its next statement
SpecRunFair == SpecRun /\ WF_vars(RunStep)

-----------------------------------------------------------------------------
(* The constructor run statement by statement under DHEAP_SIMD_POLICY 2     *)
(* (hybrid), for each arity with a vector path and with                     *)
(* DHEAP_SIMD_BUILD_MIN_ARITY below, at and above the arity.                *)

\* the values of DHEAP_SIMD_BUILD_MIN_ARITY
BuildMinArities == {4, DHEAP_SIMD_BUILD_MIN_ARITY, 16}

BuildConfigs ==
    {[DefaultConfig EXCEPT !.d = d, !.buildMinArity = b] :
        d \in VSArities, b \in BuildMinArities}

\* the sizes of the constructor inputs: d + 2 and 2d + 2 keys (the root's
\* children fill a block; node 1's children fill a block), and, up to
\* MaxBuild keys, d * d and d * d + d + 2 keys (size / (arity * arity) is 1;
\* the last inner node has a short tail)
BuildSizes(d) ==
    {d + 2, 2 * d + 2} \cup {n \in {d * d, d * d + d + 2} : n <= MaxBuild}

\* the constructor inputs: all 0 or all 1 but for at most MaxOdd positions
BuildInputs(d) ==
    {Sparse(n, b, odd) :
        n \in BuildSizes(d), b \in {0, 1}, odd \in Positions(MaxBuild, MaxOdd)}

\* the constructor up to its `if (heap_keys_.size() > 1)`
BuildInit ==
    /\ cfg \in BuildConfigs
    /\ \E data \in BuildInputs(cfg.d) :
         /\ HeapIs(AcquireAll([EmptyHeap EXCEPT !.keys = data], Len(data)))
         /\ input = data
         /\ issued = IssuedAtConstruct(data)
         /\ result = Built("construct", data)
         /\ frame = [Idle EXCEPT !.pc = "heapify", !.loop = HeapifyStart(cfg.d, Len(data))]
    /\ ref = RefEmpty
    /\ twin = Null /\ out = <<>> /\ nPush = 0 /\ nPop = 0
    /\ phase = "build" /\ calls = <<>>

SpecBuild == BuildInit /\ [][RunNext]_vars

-----------------------------------------------------------------------------
(* The slot pool scenario on a heap built by either constructor: the keys   *)
(* handed to the constructor are in input, the calls made since in calls.   *)

\* the constructor inputs: up to MaxBuilt keys, each 0 or 1
BuiltInputs == UNION {[1 .. n -> {0, 1}] : n \in 0 .. MaxBuilt}

BuiltInit ==
    /\ cfg \in MainConfigs
    /\ \/ InitDefault /\ input = <<>>
       \/ \E data \in BuiltInputs : InitFrom(data) /\ input = data
    /\ twin = Null /\ out = <<>> /\ nPush = 0 /\ nPop = 0
    /\ phase = "built" /\ calls = <<>> /\ frame = Idle

SpecBuilt == BuiltInit /\ [][PoolNext]_vars

-----------------------------------------------------------------------------
(* Properties *)

Range(s) == {s[k] : k \in DOMAIN s}

\* the key array is a d-ary min-heap: no key is smaller than its parent's
HeapOrdered(d, keys) ==
    \A i \in 1 .. Len(keys) - 1 : At(keys, (i - 1) \div d) <= At(keys, i)

\* C1: after bulk construction and after any sequence of push, pop, clear and
\* reserve calls, keys[(i-1)/d] <= keys[i] for every index 0 < i < size.
C1_HeapOrder == HeapOrdered(cfg.d, heap_keys_)

\* C1 witness: a pop has sifted the former last key down from the root of a
\* heap that still holds four keys, not all equal.
C1_Witness ==
    /\ result.op = "pop" /\ result.err = "none"
    /\ Len(heap_keys_) >= 4
    /\ sift_trace # <<>>
    /\ At(heap_keys_, 0) < Back(heap_keys_)

\* C2: under any interleaving of calls applied alike to the heap and to the
\* reference priority queue, the two have the same size after every step,
\* the heap's top() is the reference minimum whenever they are non-empty,
\* and a top() call that returned gave the reference minimum.
C2_Differential ==
    /\ size(Self) = RefSize(ref)
    /\ ~empty(Self) => top(Self).val = RefTop(ref)
    /\ (result.op = "top" /\ result.err = "none") => result.val = RefTop(ref)

\* C2 witness: top() returned 1 on a heap of at least three keys out of which
\* a key has been popped before.
C2_Witness ==
    /\ result.op = "top" /\ result.err = "none"
    /\ result.val = 1
    /\ Len(heap_keys_) >= 3
    /\ free_slots_ # <<>>

\* C3: keys pushed in any order into an empty heap and drained by top() then
\* pop() until empty() come out as the sorted input; while draining, the keys
\* read so far are the first keys of the sorted input and the rest are still
\* in the heap; the heap ends empty.
C3_SortedDrain ==
    phase \in {"drain", "done"} =>
        /\ Len(out) <= Len(input)
        /\ out = SubSeq(std_sort(input), 1, Len(out))
        /\ Len(out) + Len(heap_keys_) = Len(input)
        /\ phase = "done" => (out = std_sort(input) /\ heap_keys_ = <<>>)

\* C3 witness: a drain has ended on at least four keys that were pushed out of
\* order and hold a duplicate.
C3_Witness ==
    /\ phase = "done"
    /\ Len(out) >= 4
    /\ input # std_sort(input)
    /\ Cardinality(Range(input)) < Len(input)

\* C4: from an empty heap, after k successful push calls and m successful pop
\* calls size() is k - m, the key and slot arrays have the same length, and
\* empty() is true iff size() is 0.
C4_SizeConservation ==
    phase = "ops" =>
        /\ size(Self) = nPush - nPop
        /\ Len(heap_slots_) = Len(heap_keys_)
        /\ empty(Self) <=> (size(Self) = 0)
        /\ result.op = "observe" =>
              /\ result.val.size = nPush - nPop
              /\ result.val.empty <=> (result.val.size = 0)

\* C4 witness: size() and empty() are read after three pushes and two pops.
C4_Witness ==
    /\ phase = "ops"
    /\ result.op = "observe"
    /\ nPush >= 3 /\ nPop = nPush - 1
    /\ result.val.size = 1 /\ ~result.val.empty

\* C5: top() and pop() on a heap of size 0 throw and change nothing: the keys,
\* the slots, the free list and the slot counter stay, and the size stays 0.
C5_EmptyError ==
    [][(heap_keys_ = <<>> /\ result'.op \in {"top", "pop"}) =>
            /\ result'.err = "EmptyContainer"
            /\ UNCHANGED heapVars
            /\ Len(heap_keys_') = 0]_vars

\* C5 witness: pop() has thrown on a heap that was drained (its slots are all
\* on the free list).
C5_Witness ==
    /\ result.op = "pop" /\ result.err = "EmptyContainer"
    /\ heap_keys_ = <<>>
    /\ Len(free_slots_) >= 2

\* C6: a heap bulk-constructed from the keys and a heap the same keys were
\* pushed into one by one drain to the same sequence, read by read, and that
\* sequence is the sorted input.
C6_BuildPushEquivalence ==
    /\ phase \in {"drain", "done"} => twin.out = out
    /\ phase = "done" => (twin.out = std_sort(input) /\ twin.heap.keys = <<>>)

\* C6 witness: both drains have ended on five keys, not all equal, and the
\* constructor's heapify had moved keys.
C6_Witness ==
    /\ phase = "done"
    /\ Len(twin.out) >= 5
    /\ twin.out[1] # twin.out[5]
    /\ input # std_sort(input)

\* the node, the child picked and that child's key, step by step
Picks(trace) == [k \in DOMAIN trace |-> <<trace[k].i, trace[k].min_idx, trace[k].min_val>>]

\* C7: for arity 4, 8 and 16, a heap under the always-vectorize policy and one
\* under the never-vectorize policy, given the same constructor input and the
\* same calls, pick the same child at every sift-down step and hold the same
\* keys, slots, free list and slot counter after every call (so every top(),
\* hence the drain, reads the same).
C7_VectorScalarAgree ==
    phase = "vs" =>
        /\ twin.keys = heap_keys_
        /\ twin.slots = heap_slots_
        /\ twin.free = free_slots_
        /\ twin.next = next_slot_
        /\ Picks(twin.trace) = Picks(sift_trace)

\* C7 witness: a pop of the arity-16 heap whose first step took the vector
\* path where the twin scanned, and picked a child other than the first.
C7_Witness ==
    /\ phase = "vs" /\ cfg.d = 16
    /\ result.op = "pop"
    /\ sift_trace # <<>> /\ twin.trace # <<>>
    /\ sift_trace[1].used_simd /\ ~twin.trace[1].used_simd
    /\ sift_trace[1].min_idx > 1
    /\ Cardinality(Range(heap_keys_)) = 2

\* C8: with the smallest and largest 32-bit keys, their neighbours and zero,
\* duplicates included, the drain reads the keys in signed numeric order:
\* the root is always a smallest key, the keys read never decrease, and a
\* drain of an input holding INT32_MIN and INT32_MAX starts with the one and
\* ends with the other.
C8_BoundaryOrder ==
    phase \in {"fill", "drain", "done"} =>
        /\ \A k \in DOMAIN heap_keys_ : At(heap_keys_, 0) <= heap_keys_[k]
        /\ \A i, j \in DOMAIN out : i < j => out[i] <= out[j]
        /\ \A k \in DOMAIN out : \A key \in Range(heap_keys_) : out[k] <= key
        /\ (phase = "done" /\ INT32_MIN \in Range(input)) => out[1] = INT32_MIN
        /\ (phase = "done" /\ INT32_MAX \in Range(input)) => out[Len(out)] = INT32_MAX

\* C8 witness: a drain that read INT32_MIN twice, then 0, then INT32_MAX.
C8_Witness ==
    /\ phase = "done"
    /\ Len(out) >= 4
    /\ out[1] = INT32_MIN /\ out[2] = INT32_MIN
    /\ 0 \in Range(out)
    /\ out[Len(out)] = INT32_MAX
    /\ input[1] = INT32_MAX

\* the calls C9 speaks of
PublicOps == {"push", "pop", "top", "size", "empty", "clear", "reserve"}

\* C9 as stated: push is the only call that takes the heap from Empty to
\* NonEmpty, pop on a heap of size 1 is the only call that takes it from
\* NonEmpty to Empty, every other call leaves a NonEmpty heap NonEmpty.
C9_Original ==
    [][result'.op \in PublicOps =>
            /\ (heap_keys_ = <<>> /\ heap_keys_' # <<>>) => result'.op = "push"
            /\ (heap_keys_ # <<>> /\ heap_keys_' = <<>>) =>
                    (result'.op = "pop" /\ Len(heap_keys_) = 1)]_vars

\* C9 amended: push is the only call that takes the heap from Empty to
\* NonEmpty; pop on a heap of size 1 and clear are the only calls that take
\* it from NonEmpty to Empty; every other call leaves a NonEmpty heap NonEmpty.
C9_Transitions ==
    [][result'.op \in PublicOps =>
            /\ (heap_keys_ = <<>> /\ heap_keys_' # <<>>) => result'.op = "push"
            /\ (heap_keys_ # <<>> /\ heap_keys_' = <<>>) =>
                    \/ result'.op = "pop" /\ Len(heap_keys_) = 1
                    \/ result'.op = "clear"]_vars

\* C9 witness: clear() has emptied a heap of three or more keys.
C9_Witness ==
    /\ result.op = "clear"
    /\ result.before >= 3
    /\ heap_keys_ = <<>>

\* C10: bulk construction from n keys does not fail and leaves a heap of size
\* n holding the input's keys, whose slots are 0..n-1, each once, slot h beside
\* the key input[h], with next_slot_ = n and an empty free list.
C10_BulkConstruct ==
    result.op = "construct" =>
        LET data == result.arg
            n    == Len(data)
        IN  /\ result.err = "none"
            /\ Len(heap_keys_) = n /\ Len(heap_slots_) = n
            /\ SeqToBag(heap_keys_) = SeqToBag(data)
            /\ Range(heap_slots_) = 0 .. n - 1
            /\ \A i \in 0 .. n - 1 : At(heap_keys_, i) = At(data, At(heap_slots_, i))
            /\ next_slot_ = n
            /\ free_slots_ = <<>>

\* C10 witness: a heap built from five keys that heapify had to reorder.
C10_Witness ==
    /\ result.op = "construct" /\ phase = "api"
    /\ Len(result.arg) = 5
    /\ heap_keys_ # result.arg
    /\ heap_slots_ # <<0, 1, 2, 3, 4>>

\* C11: at every position the key is the key its slot was issued for by the
\* push or the constructor that acquired the slot: keys and slots have moved
\* together through every sift-up, sift-down and pop.
C11_PairsMoveTogether ==
    /\ Len(heap_slots_) = Len(heap_keys_)
    /\ \A i \in 0 .. Len(heap_keys_) - 1 :
          /\ At(heap_slots_, i) \in DOMAIN issued
          /\ issued[At(heap_slots_, i)] = At(heap_keys_, i)

\* C11 witness: a pop has sifted a pair down from the root of a heap that
\* still holds three pairs, out of slot order and with differing keys.
C11_Witness ==
    /\ result.op = "pop" /\ result.err = "none"
    /\ Len(heap_keys_) >= 3
    /\ Len(sift_trace) >= 1
    /\ At(heap_slots_, 0) > At(heap_slots_, 1)
    /\ At(heap_keys_, 0) < At(heap_keys_, 2)
    /\ free_slots_ # <<>>

\* C12: clear() does not fail and leaves the keys, the slots and the free
\* list empty and next_slot_ = 0, as in a default-constructed heap, whatever
\* the heap held; the push that follows a clear() is issued slot 0.
C12_ClearResets ==
    phase = "pool" =>
        /\ (calls # <<>> /\ Back(calls) = "clear") =>
              /\ result.err = "none"
              /\ heap_keys_ = EmptyHeap.keys /\ heap_slots_ = EmptyHeap.slots
              /\ free_slots_ = EmptyHeap.free /\ next_slot_ = EmptyHeap.next
              /\ next_slot_ = 0
        /\ (Len(calls) >= 2 /\ Back(calls) = "push" /\ calls[Len(calls) - 1] = "clear") =>
              /\ heap_slots_ = <<0>>
              /\ next_slot_ = 1
              /\ free_slots_ = <<>>

\* C12 witness: a push after a clear() of a heap that held two keys and had
\* a slot on its free list.
C12_Witness ==
    /\ phase = "pool"
    /\ calls = <<"push", "push", "push", "pop", "clear", "push">>
    /\ heap_slots_ = <<0>>

\* C13: reserve(n) for every n, a top() that returns, size() and empty() leave
\* the keys, the slots, the free list and next_slot_ as they were.
C13_ReadOnlyCalls ==
    [][(\/ result'.op \in {"reserve", "size", "empty"}
        \/ result'.op = "top" /\ result'.err = "none") =>
            /\ heap_keys_' = heap_keys_
            /\ heap_slots_' = heap_slots_
            /\ free_slots_' = free_slots_
            /\ next_slot_' = next_slot_]_vars

\* C13 witness: reserve(n) with n no less than the size was called on a heap
\* that holds a key and has two slots on its free list.
C13_Witness ==
    /\ result.op = "reserve" /\ result.err = "none"
    /\ result.arg >= Len(heap_keys_)
    /\ heap_keys_ # <<>>
    /\ Len(free_slots_) >= 2

\* the child at index min_idx with key min_val is the lowest-indexed child of
\* node i, among its children present in keys, that holds their minimum key
LowestMinChild(d, keys, i, min_idx, min_val) ==
    LET first == i * d + 1
        last  == MinNat(i * d + d, Len(keys) - 1)
    IN  /\ min_idx \in first .. last
        /\ At(keys, min_idx) = min_val
        /\ \A j \in first .. last : min_val <= At(keys, j)
        /\ \A j \in first .. min_idx - 1 : min_val < At(keys, j)

\* C14: every iteration of sift_down that looks for the minimum child, in the
\* constructor's heapify and in pop, by the scalar scan or by the 4, 8 or 16
\* lane vector path, picks the lowest-indexed child among the children
\* i*d+1 .. min(i*d+d, size-1) of the keys it reads that holds their minimum.
C14_LowestIndexedMin ==
    [][Len(sift_trace') = Len(sift_trace) + 1 =>
            /\ Back(sift_trace').i = frame.i
            /\ Back(sift_trace').n = Len(heap_keys_)
            /\ LowestMinChild(cfg.d, heap_keys_, frame.i,
                              Back(sift_trace').min_idx, Back(sift_trace').min_val)]_vars

\* C14 witness: the 16-lane vector path has picked a child of the third
\* block or beyond whose key a later child holds as well, and the child's
\* pair has moved up.
C14_Witness ==
    /\ phase = "run" /\ cfg.d = 16
    /\ frame.pc = "sift_down"
    /\ sift_trace # <<>>
    /\ Back(sift_trace).used_simd
    /\ Back(sift_trace).min_idx = frame.i
    /\ frame.i >= first_child(16, Back(sift_trace).i) + 8
    /\ \E j \in frame.i + 1 .. Len(heap_keys_) - 1 :
          At(heap_keys_, j) = Back(sift_trace).min_val

\* the key/slot pairs of the heap, position by position
Pairs(keys, slots) == [k \in DOMAIN keys |-> <<keys[k], slots[k]>>]

\* C15: a pop() on a heap of one key or more returns, removes the pair that
\* was at index 0, whose key is a minimum, appends that pair's slot to the
\* free list and nothing else, leaves next_slot_ as it was, and leaves the
\* other pairs, as a multiset, exactly as they were.
C15_PopFrame ==
    [][(result'.op = "pop" /\ heap_keys_ # <<>>) =>
            /\ result'.err = "none"
            /\ \A k \in DOMAIN heap_keys_ : At(heap_keys_, 0) <= heap_keys_[k]
            /\ free_slots_' = Append(free_slots_, At(heap_slots_, 0))
            /\ next_slot_' = next_slot_
            /\ Len(heap_keys_') = Len(heap_keys_) - 1
            /\ Len(heap_slots_') = Len(heap_slots_) - 1
            /\ SeqToBag(Pairs(heap_keys_', heap_slots_'))
                    (+) SetToBag({<<At(heap_keys_, 0), At(heap_slots_, 0)>>})
                 = SeqToBag(Pairs(heap_keys_, heap_slots_))]_vars

\* C15 witness: a second pop has left three pairs or more, the pair sifted down
\* from the root having moved, and two slots on the free list.
C15_Witness ==
    /\ result.op = "pop" /\ result.err = "none"
    /\ result.before >= 4
    /\ Len(free_slots_) >= 2
    /\ Len(sift_trace) >= 1
    /\ sift_trace[1].min_val < Back(heap_keys_)

\* C16: a push on a heap whose free list is not empty takes its slot from
\* the free list (the last one) and leaves next_slot_ as it was; a push on a
\* heap whose free list is empty gets the slot next_slot_ and next_slot_ grows
\* by exactly 1; no push or pop ever lowers next_slot_.
C16_SlotReuse ==
    [][/\ result'.op = "push" =>
            IF free_slots_ # <<>>
            THEN /\ SeqToBag(heap_slots_')
                        = SeqToBag(heap_slots_) (+) SetToBag({Back(free_slots_)})
                 /\ free_slots_' = PopBack(free_slots_)
                 /\ next_slot_' = next_slot_
            ELSE /\ SeqToBag(heap_slots_') = SeqToBag(heap_slots_) (+) SetToBag({next_slot_})
                 /\ free_slots_' = <<>>
                 /\ next_slot_' = next_slot_ + 1
       /\ result'.op \in {"push", "pop"} => next_slot_' >= next_slot_]_vars

\* C16 witness: after two pushes and a pop, a push has taken the freed slot
\* and next_slot_ is still 2.
C16_Witness ==
    /\ phase = "pool"
    /\ calls = <<"push", "push", "pop", "push">>
    /\ result.op = "push"
    /\ next_slot_ = 2
    /\ free_slots_ = <<>>
    /\ Range(heap_slots_) = {0, 1}

\* the indices from i up to the root, through the parents
RECURSIVE PathToRoot(_, _)
PathToRoot(d, i) == IF i = 0 THEN {0} ELSE {i} \cup PathToRoot(d, (i - 1) \div d)

\* C17: push(v) on a heap of n keys changes only positions on the path from
\* the new last index n to the root: v comes to rest at a position pos of the
\* path whose parent's key is not above v (or at the root), each position of
\* the path below pos receives its parent's pair, whose key was strictly
\* above v, and every other position keeps its key and slot. When v is not
\* below the key of the parent of n, every position 0..n-1 keeps its key and
\* slot and v is stored at n.
C17_SiftUpFrame ==
    [][result'.op = "push" =>
        LET n    == Len(heap_keys_)
            v    == result'.arg
            d    == cfg.d
            path == PathToRoot(d, n)
        IN  /\ Len(heap_keys_') = n + 1 /\ Len(heap_slots_') = n + 1
            /\ \A j \in (0 .. n - 1) \ path :
                  /\ At(heap_keys_', j) = At(heap_keys_, j)
                  /\ At(heap_slots_', j) = At(heap_slots_, j)
            /\ \E pos \in path :
                  /\ At(heap_keys_', pos) = v
                  /\ pos > 0 => At(heap_keys_, (pos - 1) \div d) <= v
                  /\ \A j \in path :
                        /\ j > pos =>
                              /\ At(heap_keys_, (j - 1) \div d) > v
                              /\ At(heap_keys_', j) = At(heap_keys_, (j - 1) \div d)
                              /\ At(heap_slots_', j) = At(heap_slots_, (j - 1) \div d)
                        /\ j < pos =>
                              /\ At(heap_keys_', j) = At(heap_keys_, j)
                              /\ At(heap_slots_', j) = At(heap_slots_, j)
            /\ (n = 0 \/ (n > 0 /\ v >= At(heap_keys_, (n - 1) \div d))) =>
                  /\ SubSeq(heap_keys_', 1, n) = heap_keys_
                  /\ SubSeq(heap_slots_', 1, n) = heap_slots_
                  /\ At(heap_keys_', n) = v]_vars

\* C17 witness: a push of a key equal to the key of the new last index's
\* parent, which is not the root, has left the key at the last index.
C17_Witness ==
    /\ result.op = "push" /\ cfg.d = 2
    /\ Len(heap_keys_) >= 4
    /\ Back(heap_keys_) = result.arg
    /\ At(heap_keys_, (Len(heap_keys_) - 2) \div 2) = result.arg
    /\ At(heap_keys_, 0) < result.arg

\* the indices of keys that have a child
NonLeaves(d, n) == {j \in 0 .. n - 1 : j * d + 1 < n}

\* every subtree rooted at index i or higher is in heap order
OrderedFrom(d, keys, i) ==
    \A k \in 1 .. Len(keys) - 1 :
        (k - 1) \div d >= i => At(keys, (k - 1) \div d) <= At(keys, k)

\* C18: the constructor calls sift_down, in build phase, on the indices
\* parent(n-1), parent(n-1) - 1, ..., 0 in that order, which are exactly the
\* indices that have a child, each once; when the call for index i has
\* returned every subtree rooted at an index >= i is in heap order, and when
\* the call for index 0 has returned the whole array is.
C18_FloydOrder ==
    (phase = "run" /\ result.op = "construct") =>
        LET n == Len(input)
            d == cfg.d
        IN  /\ \A k \in DOMAIN calls :
                  /\ calls[k] = SiftCall("sift_down", (n - 2) \div d + 1 - k, TRUE)
                  /\ calls[k].i \in NonLeaves(d, n)
            /\ n > 1 => Len(calls) = (n - 2) \div d + 1 - frame.loop
            /\ n <= 1 => calls = <<>>
            /\ frame.pc \in {"heapify", "idle"} => OrderedFrom(d, heap_keys_, frame.loop)
            /\ frame.pc = "idle" =>
                  /\ {calls[k].i : k \in DOMAIN calls} = NonLeaves(d, n)
                  /\ Len(calls) = Cardinality(NonLeaves(d, n))
                  /\ HeapOrdered(d, heap_keys_)

\* C18 witness: the constructor has returned from five keys of a binary heap
\* that were out of order at node 1 and at the root, after two sift_down calls.
C18_Witness ==
    /\ phase = "run" /\ result.op = "construct"
    /\ frame.pc = "idle"
    /\ cfg.d = 2 /\ Len(input) = 5
    /\ Len(calls) = 2 /\ calls[1].i = 1 /\ calls[2].i = 0
    /\ At(input, 1) > At(input, 4)
    /\ At(input, 0) > At(input, 2)
    /\ heap_keys_ # input

\* C19: every iteration of sift_down's loop either ends the loop or goes on
\* at a strictly higher index (the child picked lies above the node and inside
\* the array), every iteration of sift_up's loop either ends the loop or goes
\* on at a strictly lower index, the constructor's loop variable goes down by
\* one with every call it makes, and every constructor, push and pop call
\* that has begun returns.
C19_Termination ==
    /\ [][/\ Len(sift_trace') = Len(sift_trace) + 1 =>
               /\ Back(sift_trace').min_idx > frame.i
               /\ Back(sift_trace').min_idx < Len(heap_keys_)
          /\ (frame.pc = "sift_down" /\ frame'.pc = "sift_down") => frame'.i > frame.i
          /\ (frame.pc = "sift_up" /\ frame'.pc = "sift_up") =>
               (frame'.i < frame.i /\ frame'.i >= 0)
          /\ (frame.pc = "heapify" /\ frame'.pc = "sift_down") =>
               (frame'.loop = frame.loop - 1 /\ frame'.i = frame'.loop)
          /\ (frame.pc = "sift_down" /\ frame'.pc = "heapify") =>
               frame'.loop = frame.loop]_vars
    /\ (frame.pc # "idle") ~> (frame.pc = "idle")

\* C19 witness: a pop has returned after a sift_down of two iterations that
\* each moved a child up.
C19_Witness ==
    /\ phase = "run" /\ frame.pc = "idle"
    /\ result.op = "pop" /\ result.err = "none"
    /\ Len(sift_trace) = 2
    /\ sift_trace[2].i = sift_trace[1].min_idx
    /\ sift_trace[2].min_val < At(heap_keys_, sift_trace[2].min_idx)

\* C20: under the hybrid policy, a step of a pop's sift_down takes a vector
\* path only if it is the first step, at node 0, the arity is 16 or more and
\* the size sift_down sees (after the root's removal) is DHEAP_SIMD_POP_MIN_SIZE
\* or more; every later step of the pop scans.
C20_HybridPop ==
    (phase = "hybrid" /\ cfg.policy = 2 /\ result.op = "pop") =>
        \A k \in DOMAIN sift_trace :
            /\ ~sift_trace[k].heapify
            /\ sift_trace[k].n = Len(heap_keys_)
            /\ sift_trace[k].used_simd =>
                  /\ k = 1 /\ sift_trace[k].i = 0
                  /\ cfg.d >= 16
                  /\ sift_trace[k].n >= cfg.popMinSize
            /\ k > 1 => ~sift_trace[k].used_simd

\* C20 witness: a pop of an arity-16 heap at the size threshold or above
\* took the vector path at the root and scanned at node 1, whose children
\* fill a block.
C20_Witness ==
    /\ phase = "hybrid" /\ cfg.d = 16 /\ result.op = "pop"
    /\ Len(sift_trace) = 2
    /\ sift_trace[1].used_simd /\ sift_trace[1].i = 0
    /\ sift_trace[2].i = 1 /\ ~sift_trace[2].used_simd
    /\ Len(heap_keys_) = 33
    /\ Len(heap_keys_) >= cfg.popMinSize

\* the cutoff of the hybrid build phase for a heap of n keys
top_level_limit(d, n) == n \div (d * d)

\* C21: under the hybrid policy, a step of a build-phase sift_down takes a
\* vector path only if the arity is DHEAP_SIMD_BUILD_MIN_ARITY or more and
\* the step's node, and so the node the call began at, has an index of at
\* most size / (arity * arity); a step at a node past that index scans.
C21_HybridBuild ==
    (phase = "build" /\ cfg.policy = 2 /\ frame.pc = "sift_down" /\ frame.heapify_phase) =>
        \A k \in DOMAIN sift_trace :
            /\ sift_trace[k].heapify
            /\ sift_trace[k].n = Len(heap_keys_)
            /\ sift_trace[k].used_simd =>
                  /\ cfg.d >= cfg.buildMinArity
                  /\ sift_trace[k].i <= top_level_limit(cfg.d, Len(heap_keys_))
                  /\ calls[Len(calls)].i <= top_level_limit(cfg.d, Len(heap_keys_))
            /\ sift_trace[k].i > top_level_limit(cfg.d, Len(heap_keys_)) =>
                  ~sift_trace[k].used_simd

\* C21 witness: the build-phase call at node 0 of a 22-key heap of arity 4
\* (cutoff 1) took the vector path at node 0 and then scanned at node 2,
\* whose four children are all in the heap.
C21_Witness ==
    /\ phase = "build" /\ cfg.d = 4 /\ cfg.buildMinArity = 4
    /\ frame.pc = "sift_down" /\ frame.heapify_phase
    /\ Len(heap_keys_) = 22
    /\ calls[Len(calls)].i = 0
    /\ Len(sift_trace) >= 2
    /\ sift_trace[1].i = 0 /\ sift_trace[1].used_simd
    /\ sift_trace[2].i = 2 /\ ~sift_trace[2].used_simd
    /\ first_child(cfg.d, 2) + 3 < Len(heap_keys_)

\* the indices of the d children of node i, in the heap or not
ChildIndices(d, i) == {i * d + j : j \in 1 .. d}

\* C22: a step of sift_down that takes a vector path, in the build phase or
\* in a pop, has arity 4, 8 or 16 and all d child indices i*d+1 .. i*d+d
\* below the heap's size; a step at a node with fewer than d children in the
\* heap scans, and the child it finds is one of those in the heap.
C22_FullBlockOnly ==
    (phase = "run" /\ frame.pc = "sift_down") =>
        \A k \in DOMAIN sift_trace :
            /\ sift_trace[k].n = Len(heap_keys_)
            /\ sift_trace[k].used_simd =>
                  /\ cfg.d \in {4, 8, 16}
                  /\ \A j \in ChildIndices(cfg.d, sift_trace[k].i) : j < Len(heap_keys_)
            /\ (\E j \in ChildIndices(cfg.d, sift_trace[k].i) : j >= Len(heap_keys_)) =>
                  /\ ~sift_trace[k].used_simd
                  /\ sift_trace[k].min_idx \in ChildIndices(cfg.d, sift_trace[k].i)
                  /\ sift_trace[k].min_idx < Len(heap_keys_)

\* C22 witness: under always-vectorize, a build-phase call at node 0 took
\* the vector path at node 0, whose last child is the heap's last key but
\* one, and then scanned at node 1, which has a single child.
C22_Witness ==
    /\ phase = "run" /\ cfg.policy = 1 /\ frame.pc = "sift_down"
    /\ Len(sift_trace) = 2
    /\ sift_trace[1].i = 0 /\ sift_trace[1].used_simd
    /\ sift_trace[2].i = 1 /\ ~sift_trace[2].used_simd
    /\ Len(heap_keys_) = cfg.d + 2
    /\ first_child(cfg.d, 1) = Len(heap_keys_) - 1

\* the sequence s holds no element twice
Distinct(s) == Cardinality(Range(s)) = Len(s)

\* C23: between calls, the slots in heap_slots_ are pairwise distinct, the
\* slots in free_slots_ are pairwise distinct, no slot is in both, and
\* together they are exactly 0 .. next_slot_ - 1; so size() plus the length
\* of free_slots_ is next_slot_, and the slots in issue are those of the heap.
C23_SlotPartition ==
    phase = "api" =>
        /\ Distinct(heap_slots_)
        /\ Distinct(free_slots_)
        /\ Range(heap_slots_) \cap Range(free_slots_) = {}
        /\ Range(heap_slots_) \cup Range(free_slots_) = 0 .. next_slot_ - 1
        /\ size(Self) + Len(free_slots_) = next_slot_
        /\ DOMAIN issued = Range(heap_slots_)

\* C23 witness: a push has left two live keys and two slots on the free
\* list, so it took its slot from a free list of three, filled by pops.
C23_Witness ==
    /\ phase = "api" /\ result.op = "push" /\ result.err = "none"
    /\ Len(heap_slots_) = 2 /\ Len(free_slots_) = 2 /\ next_slot_ = 4
    /\ heap_slots_ # <<0, 1>>

\* the largest size reached since construction or the last clear(), from
\* the call log: sz is the size and hw the largest size before call k
RECURSIVE HighWater(_, _, _, _)
HighWater(log, k, sz, hw) ==
    IF k > Len(log) THEN hw
    ELSE IF log[k] = "push"
         THEN HighWater(log, k + 1, sz + 1, IF sz + 1 > hw THEN sz + 1 ELSE hw)
    ELSE IF log[k] = "pop"
         THEN HighWater(log, k + 1, IF sz > 0 THEN sz - 1 ELSE 0, hw)
    ELSE HighWater(log, k + 1, 0, 0)

\* C24: next_slot_ is the largest size the heap has had since it was
\* constructed or last cleared, and every slot of the heap and of the free
\* list is below it, however many pushes and pops were made.
C24_HighWaterMark ==
    phase = "built" =>
        /\ next_slot_ = HighWater(calls, 1, Len(input), Len(input))
        /\ \A s \in Range(heap_slots_) \cup Range(free_slots_) :
              s < HighWater(calls, 1, Len(input), Len(input))

\* C24 witness: a heap constructed from two keys went through sizes 3, 2,
\* 1, 2, 3, 2: three pushes in all, and next_slot_ is 3.
C24_Witness ==
    /\ phase = "built" /\ Len(input) = 2
    /\ calls = <<"push", "pop", "pop", "push", "push", "pop">>
    /\ next_slot_ = 3
    /\ Len(heap_keys_) = 2

\* heap sizes below, at and above the thresholds of the hybrid policy
PolicySizes ==
    {2, DHEAP_ARITY + 1, DHEAP_ARITY * DHEAP_ARITY, 2 * DHEAP_ARITY * DHEAP_ARITY,
     DHEAP_SIMD_POP_MIN_SIZE - 1, DHEAP_SIMD_POP_MIN_SIZE, DHEAP_SIMD_POP_MIN_SIZE + 1,
     INT32_MAX}

\* C25: in the default build (DHEAP_ARITY 4, DHEAP_SIMD_POLICY 2,
\* DHEAP_SIMD_BUILD_MIN_ARITY 8, DHEAP_SIMD_POP_MIN_SIZE 4194304) no step of
\* sift_down, in the constructor or in a pop, takes a vector path: the
\* policy allows none at any node of a heap of any size, and every step run
\* scanned and picked what the never-vectorize twin picked.
C25_DefaultScalar ==
    (phase = "hybrid" /\ cfg = DefaultConfig) =>
        /\ cfg.d = 4 /\ cfg.policy = 2 /\ cfg.buildMinArity = 8 /\ cfg.popMinSize = 4194304
        /\ \A k \in DOMAIN sift_trace : ~sift_trace[k].used_simd
        /\ sift_trace = twin.trace
        /\ \A n \in PolicySizes, i \in 0 .. 2, heapify_phase \in BOOLEAN :
              ~AllowSimd(cfg, i, n, heapify_phase)

\* C25 witness: a pop of a default-build heap left nine keys and scanned
\* at node 0 and at node 1, each with four children in the heap; the heap
\* came from the constructor, which scanned too.
C25_Witness ==
    /\ phase = "hybrid" /\ cfg = DefaultConfig
    /\ result.op = "pop" /\ result.before = 10
    /\ Len(sift_trace) = 2
    /\ sift_trace[1].i = 0 /\ ~sift_trace[1].used_simd
    /\ sift_trace[2].i = 1 /\ ~sift_trace[2].used_simd
    /\ first_child(cfg.d, 1) + 3 < Len(heap_keys_)

====
